---------------------------- MODULE Spec2Model ----------------------------
(***************************************************************************)
(* A model of .github/scripts/sync_pricing_to_general.py: main() copies    *)
(* the model ids of a pricing JSON file into one or two general JSON       *)
(* files by splicing rendered stub entries into the general file's text.   *)
(*                                                                         *)
(* A text (a str, or the bytes of a file) is a sequence of symbols.  Every *)
(* character the script or the JSON grammar looks at is a symbol of its    *)
(* own: the quote, the backslash, braces, brackets, colon, comma, space,   *)
(* tab, "\n" and "\r".  A run of other characters (letters, digits, "-",   *)
(* "_") is written as one symbol, e.g. "max_tokens"; the script never      *)
(* looks inside such a run, so positions and prefixes of texts are kept.   *)
(***************************************************************************)
EXTENDS Integers, Sequences, FiniteSets, TLC

NL     == "\n"
CR     == "\r"
SP     == " "
TAB    == "\t"
QUOTE  == "\""
BSL    == "\\"
LBRACE == "{"
RBRACE == "}"
LBRACK == "["
RBRACK == "]"
COLON  == ":"
COMMA  == ","

\* The characters U+0008 and U+000C, which only a JSON escape can produce.
BS == "<U+0008>"
FF == "<U+000C>"

\* A comprehension [e for i in 1..n], built once as a sequence.
List(f) == <<>> \o f

\* str + str for more than two operands.
RECURSIVE Concat(_)
Concat(ss) == IF ss = <<>> THEN <<>> ELSE Head(ss) \o Concat(Tail(ss))

\* sep.join(parts)
RECURSIVE Join(_, _)
Join(sep, parts) ==
    IF parts = <<>> THEN <<>>
    ELSE IF Len(parts) = 1 THEN parts[1]
    ELSE parts[1] \o sep \o Join(sep, Tail(parts))

\* s[i:] and s[:i] for a 0-based Python index i, as 1-based sequences.
SliceFrom(s, i) == SubSeq(s, i + 1, Len(s))
SliceTo(s, i)   == SubSeq(s, 1, i)

(***************************************************************************)
(* JSON values.  A value is a record [t, v]: a string holds its decoded    *)
(* symbols, a number its literal, an array its items, an object its        *)
(* members <<[k, val], ...>> in document order (a dict keeps the last      *)
(* member of each key).                                                    *)
(***************************************************************************)
Str(s)     == [t |-> "str", v |-> s]
Num(lit)   == [t |-> "num", v |-> <<lit>>]
Arr(items) == [t |-> "arr", v |-> items]
Obj(mems)  == [t |-> "obj", v |-> mems]
Lit(name)  == [t |-> "lit", v |-> <<name>>]
Member(key, val) == [k |-> key, val |-> val]

\* The whitespace json.loads skips between tokens.
JsonWs == {SP, TAB, NL, CR}
\* Characters below U+0020, which a JSON string may not hold unescaped.
ControlChars == {TAB, NL, CR, BS, FF}
\* The number literals and the names true/false/null that occur in the texts.
NumberSyms  == {"1", "64000"}
LiteralSyms == {"true", "false", "null"}

\* The character a backslash escape stands for (\uXXXX does not occur).
EscapeChars == {QUOTE, BSL, "/", "b", "f", "n", "r", "t"}
Unescape(c) ==
    CASE c = "b" -> BS
      [] c = "f" -> FF
      [] c = "n" -> NL
      [] c = "r" -> CR
      [] c = "t" -> TAB
      [] OTHER   -> c

ParseFail == [ok |-> FALSE, v |-> Lit("null"), next |-> 0]
ParseOk(val, nxt) == [ok |-> TRUE, v |-> val, next |-> nxt]

RECURSIVE SkipWs(_, _)
SkipWs(s, i) == IF i <= Len(s) /\ s[i] \in JsonWs THEN SkipWs(s, i + 1) ELSE i

\* The string whose opening quote is just before position i.
RECURSIVE ScanString(_, _, _)
ScanString(s, i, acc) ==
    IF i > Len(s) THEN ParseFail
    ELSE IF s[i] = QUOTE THEN ParseOk(Str(acc), i + 1)
    ELSE IF s[i] \in ControlChars THEN ParseFail
    ELSE IF s[i] = BSL
         THEN IF i + 1 <= Len(s) /\ s[i + 1] \in EscapeChars
              THEN ScanString(s, i + 2, Append(acc, Unescape(s[i + 1])))
              ELSE ParseFail
    ELSE ScanString(s, i + 1, Append(acc, s[i]))

RECURSIVE ParseValue(_, _)
RECURSIVE ParseMembers(_, _, _)
RECURSIVE ParseItems(_, _, _)

\* The members of an object from the key whose opening quote is at i.
ParseMembers(s, i, acc) ==
    LET key  == ScanString(s, i + 1, <<>>)
        c    == SkipWs(s, key.next)
        val  == ParseValue(s, SkipWs(s, c + 1))
        e    == SkipWs(s, val.next)
        more == Append(acc, Member(key.v.v, val.v))
        n    == SkipWs(s, e + 1)
    IN  IF ~key.ok \/ c > Len(s) \/ s[c] # COLON THEN ParseFail
        ELSE IF ~val.ok \/ e > Len(s) THEN ParseFail
        ELSE IF s[e] = RBRACE THEN ParseOk(Obj(more), e + 1)
        ELSE IF s[e] # COMMA THEN ParseFail
        ELSE IF n > Len(s) \/ s[n] # QUOTE THEN ParseFail
        ELSE ParseMembers(s, n, more)

\* The items of an array from the value at i.
ParseItems(s, i, acc) ==
    LET val  == ParseValue(s, i)
        e    == SkipWs(s, val.next)
        more == Append(acc, val.v)
    IN  IF ~val.ok \/ e > Len(s) THEN ParseFail
        ELSE IF s[e] = RBRACK THEN ParseOk(Arr(more), e + 1)
        ELSE IF s[e] # COMMA THEN ParseFail
        ELSE ParseItems(s, SkipWs(s, e + 1), more)

\* The value that starts at position i (no whitespace is skipped here).
ParseValue(s, i) ==
    IF i > Len(s) THEN ParseFail
    ELSE IF s[i] = QUOTE THEN ScanString(s, i + 1, <<>>)
    ELSE IF s[i] = LBRACE
         THEN LET j == SkipWs(s, i + 1)
              IN  IF j > Len(s) THEN ParseFail
                  ELSE IF s[j] = RBRACE THEN ParseOk(Obj(<<>>), j + 1)
                  ELSE IF s[j] # QUOTE THEN ParseFail
                  ELSE ParseMembers(s, j, <<>>)
    ELSE IF s[i] = LBRACK
         THEN LET j == SkipWs(s, i + 1)
              IN  IF j > Len(s) THEN ParseFail
                  ELSE IF s[j] = RBRACK THEN ParseOk(Arr(<<>>), j + 1)
                  ELSE ParseItems(s, j, <<>>)
    ELSE IF s[i] \in NumberSyms THEN ParseOk(Num(s[i]), i + 1)
    ELSE IF s[i] \in LiteralSyms THEN ParseOk(Lit(s[i]), i + 1)
    ELSE ParseFail

\* json.loads(s): one value with whitespace around it and nothing after it;
\* ok = FALSE stands for the JSONDecodeError it raises.
Loads(s) ==
    LET r == ParseValue(s, SkipWs(s, 1))
    IN  IF r.ok /\ SkipWs(s, r.next) = Len(s) + 1 THEN r ELSE ParseFail

\* The keys of a parsed object, as dict.keys() gives them.
Keys(obj) == {obj.v[i].k : i \in DOMAIN obj.v}

\* dict[key]: the value of the last member with that key.
Lookup(obj, key) ==
    LET last == CHOOSE i \in DOMAIN obj.v :
                    /\ obj.v[i].k = key
                    /\ \A j \in DOMAIN obj.v : obj.v[j].k = key => j <= i
    IN  obj.v[last].val

(***************************************************************************)
(* json.dumps(value, indent=2)                                             *)
(***************************************************************************)
Spaces(n) == List([i \in 1..n |-> SP])

\* The escape json.dumps writes for a character of a string.
EscapeChar(c) ==
    CASE c = QUOTE -> <<BSL, QUOTE>>
      [] c = BSL   -> <<BSL, BSL>>
      [] c = NL    -> <<BSL, "n">>
      [] c = CR    -> <<BSL, "r">>
      [] c = TAB   -> <<BSL, "t">>
      [] c = BS    -> <<BSL, "b">>
      [] c = FF    -> <<BSL, "f">>
      [] OTHER     -> <<c>>

EncodeString(s) ==
    <<QUOTE>> \o Concat(List([i \in 1..Len(s) |-> EscapeChar(s[i])])) \o <<QUOTE>>

RECURSIVE Dumps(_, _)
Dumps(val, level) ==
    LET inner == <<NL>> \o Spaces(2 * (level + 1))
        outer == <<NL>> \o Spaces(2 * level)
        sep   == <<COMMA>> \o inner
    IN  CASE val.t = "str" -> EncodeString(val.v)
          [] val.t \in {"num", "lit"} -> val.v
          [] val.t = "arr" ->
                IF val.v = <<>> THEN <<LBRACK, RBRACK>>
                ELSE <<LBRACK>> \o inner
                     \o Join(sep, List([i \in DOMAIN val.v |-> Dumps(val.v[i], level + 1)]))
                     \o outer \o <<RBRACK>>
          [] val.t = "obj" ->
                IF val.v = <<>> THEN <<LBRACE, RBRACE>>
                ELSE <<LBRACE>> \o inner
                     \o Join(sep, List([i \in DOMAIN val.v |->
                            EncodeString(val.v[i].k) \o <<COLON, SP>>
                            \o Dumps(val.v[i].val, level + 1)]))
                     \o outer \o <<RBRACE>>

(***************************************************************************)
(* Text operations of str and of Path.read_text / Path.write_text          *)
(***************************************************************************)
\* The positions of s that hold a character of C, ascending.
Positions(s, C) == SelectSeq(List([i \in 1..Len(s) |-> i]), LAMBDA i : s[i] \in C)

\* The pieces of s between the positions P, the separators left out.
Segments(s, P) ==
    List([k \in 1..(Len(P) + 1) |->
            SubSeq(s, IF k = 1 THEN 1 ELSE P[k - 1] + 1,
                      IF k > Len(P) THEN Len(s) ELSE P[k] - 1)])

\* Universal newlines: "\r\n" and "\r" both read as "\n".
TranslateNewlines(s) ==
    LET kept == SelectSeq(List([i \in 1..Len(s) |-> i]),
                          LAMBDA i : ~(s[i] = NL /\ i > 1 /\ s[i - 1] = CR))
    IN  List([k \in 1..Len(kept) |-> IF s[kept[k]] = CR THEN NL ELSE s[kept[k]]])

\* Path.read_text(): the file's bytes decoded, newlines translated.
ReadText(bytes) == TranslateNewlines(bytes)

\* Path.write_text(data): every "\n" is written as os.linesep.
WriteText(data, sep) ==
    LET breaks == Positions(data, {NL})
    IN  Join(sep, Segments(data, breaks))

\* str.splitlines(): the lines without their line breaks; a final line break
\* starts no further line.
SplitLines(s) ==
    LET u      == TranslateNewlines(s)
        t      == List([i \in 1..Len(u) |-> IF u[i] = FF THEN NL ELSE u[i]])
        breaks == Positions(t, {NL})
        lines  == Segments(t, breaks)
    IN  IF lines[Len(lines)] = <<>> THEN SubSeq(lines, 1, Len(lines) - 1) ELSE lines

\* The whitespace str.lstrip() removes.
StrWs == {SP, TAB, NL, CR, FF}

\* The number of leading whitespace characters of a line.
RECURSIVE LeadingWs(_)
LeadingWs(line) ==
    IF line # <<>> /\ Head(line) \in StrWs THEN 1 + LeadingWs(Tail(line)) ELSE 0

LStrip(line) == SliceFrom(line, LeadingWs(line))

\* line.index(c): the 0-based position of the first c.
IndexOf(line, c) == (CHOOSE i \in 1..Len(line) :
                        line[i] = c /\ \A j \in 1..(i - 1) : line[j] # c) - 1

(***************************************************************************)
(* The script's constants                                                  *)
(***************************************************************************)
GENERAL_RESERVED == {<<"name">>, <<"description">>, <<"default">>}

MINIMAL_STUB ==
    Obj(<< Member(<<"params">>,
                  Arr(<< Obj(<< Member(<<"key">>, Str(<<"max_tokens">>)),
                                Member(<<"maxValue">>, Num("64000")) >>) >>)),
           Member(<<"type">>,
                  Obj(<< Member(<<"primary">>, Str(<<"chat">>)),
                         Member(<<"supported">>,
                                Arr(<< Str(<<"image">>), Str(<<"pdf">>),
                                       Str(<<"doc">>), Str(<<"tools">>) >>)) >>)),
           Member(<<"removeParams">>, Arr(<< Str(<<"top_p">>) >>)) >>)

(***************************************************************************)
(* Paths.  A path is its parent directory and its name; the name is the    *)
(* stem and the suffix.                                                    *)
(***************************************************************************)
MkPath(parent, stem) == [parent |-> parent, name |-> <<stem, ".json">>]
PathStem(path) == path.name[1]
NoPath == [parent |-> "", name |-> <<"", "">>]

\* get_general_paths(pricing_path, general_path_arg)
get_general_paths(pricing_path, general_path_arg) ==
    IF general_path_arg # NoPath THEN <<general_path_arg>>
    ELSE IF PathStem(pricing_path) = "openai"
         THEN <<MkPath("general", "openai"), MkPath("general", "open-ai")>>
    ELSE <<[parent |-> "general", name |-> pricing_path.name]>>

(***************************************************************************)
(* The diff: sorted(pricing_models - general_models - GENERAL_RESERVED)    *)
(***************************************************************************)
\* The symbols of model ids in the order of their first code points.
CodePointOrder == <<QUOTE, BSL, "a", "b", "c", "default", "description", "name", "q", "t">>
Ord(c) == CHOOSE i \in DOMAIN CodePointOrder : CodePointOrder[i] = c

\* x < y for two strings.
RECURSIVE StrLess(_, _)
StrLess(x, y) ==
    IF y = <<>> THEN FALSE
    ELSE IF x = <<>> THEN TRUE
    ELSE IF Head(x) # Head(y) THEN Ord(Head(x)) < Ord(Head(y))
    ELSE StrLess(Tail(x), Tail(y))

\* sorted(S)
RECURSIVE Sorted(_)
Sorted(S) ==
    IF S = {} THEN <<>>
    ELSE LET m == CHOOSE x \in S : \A y \in S \ {x} : StrLess(x, y)
         IN  <<m>> \o Sorted(S \ {m})

GeneralModels(general) == {k \in Keys(general) : k \notin GENERAL_RESERVED}

Missing(pricing_models, general) ==
    Sorted((pricing_models \ GeneralModels(general)) \ GENERAL_RESERVED)

(***************************************************************************)
(* The splice                                                              *)
(***************************************************************************)
\* A variant that never looks at the file and keeps the default indent.
DetectIndent_Default(content) == <<SP, SP>>

\* The indent of the first line that starts with a quote and holds a colon.
DetectIndent(content) ==
    LET lines == SplitLines(content)
        IsKey(line) == LET stripped == LStrip(line)
                       IN  /\ stripped # <<>>
                           /\ Head(stripped) = QUOTE
                           /\ \E j \in DOMAIN stripped : stripped[j] = COLON
        hits == {i \in DOMAIN lines : IsKey(lines[i])}
    IN  IF hits = {} THEN <<SP, SP>>
        ELSE LET first == CHOOSE i \in hits : \A j \in hits : i <= j
             IN  SliceTo(lines[first], IndexOf(lines[first], QUOTE))

StubLines == SplitLines(Dumps(MINIMAL_STUB, 0))

\* f'{indent}"{model_id}": {{\n{inner}'
NewEntry(indent, model_id) ==
    LET rest  == Tail(StubLines)
        inner == Join(<<NL>>, List([i \in DOMAIN rest |-> indent \o rest[i]]))
    IN  indent \o <<QUOTE>> \o model_id \o <<QUOTE, COLON, SP, LBRACE, NL>> \o inner

NewEntriesStr(indent, missing) ==
    Join(<<COMMA, NL>>, List([i \in DOMAIN missing |-> NewEntry(indent, missing[i])]))

\* The characters the backward scan for the root brace skips.
TrailingWs == {SP, TAB, NL, CR}

\* The 0-based index of the last character that is not whitespace, or -1.
RootClose(content) ==
    LET solid == {i \in 1..Len(content) : content[i] \notin TrailingWs}
    IN  IF solid = {} THEN -1
        ELSE (CHOOSE i \in solid : \A j \in solid : j <= i) - 1

\* content[i] for a 0-based index i.
At(content, i) == content[i + 1]

\* Line 88 and line 93: the two checks of the text before the splice.
RootBraceFound(content, root_close) ==
    ~(root_close < 0 \/ At(content, root_close) # RBRACE)

\* A variant of the second check that accepts any character before the brace.
NewlineBeforeBrace_Unchecked(content, insert_at) == insert_at >= 0

NewlineBeforeBrace(content, insert_at) ==
    ~(insert_at < 0 \/ At(content, insert_at) # NL)

Splice(content, insert_at, new_entries_str) ==
    SliceTo(content, insert_at) \o <<COMMA, NL>> \o new_entries_str \o <<NL>>
        \o SliceFrom(content, insert_at)

(***************************************************************************)
(* The inputs: command lines, pricing files and general files              *)
(***************************************************************************)
\* The most keys a pricing document holds, and the most runs in succession.
MaxKeys == 2
MaxRuns == 2

\* Model ids: two plain ones, a reserved word, one with a double quote (q")
\* and one with a backslash (c\t, three characters).
IdPool == {<<"a">>, <<"b">>, <<"name">>, <<"q", QUOTE>>, <<"c", BSL, "t">>}

PricingKeySets == {S \in SUBSET IdPool : Cardinality(S) <= MaxKeys}

\* A pricing document with the given keys, each with empty metadata.
PricingText(keys) ==
    LET ids == Sorted(keys)
    IN  Dumps(Obj(List([i \in DOMAIN ids |-> Member(ids[i], Obj(<<>>))])), 0) \o <<NL>>

PricingTexts ==
    {PricingText(S) : S \in PricingKeySets}
        \cup { <<LBRACE, QUOTE, "a", QUOTE, COLON, NL>>,     \* cut short
               <<LBRACK, RBRACK, NL>> }                      \* not an object

\* An entry of a general document: a reserved key holds a string, a model id
\* holds an object on three lines.
EntryText(ind, key) ==
    ind \o EncodeString(key) \o <<COLON, SP>> \o
        (IF key \in GENERAL_RESERVED
         THEN EncodeString(<<"OpenAI">>)
         ELSE <<LBRACE, NL>> \o ind \o ind
              \o <<QUOTE, "params", QUOTE, COLON, SP, LBRACK, RBRACK, NL>>
              \o ind \o <<RBRACE>>)

\* A general document: its entries one per line group, then the tail, which
\* runs from the newline before the root brace to the end of the file.
GeneralText(ind, keys, tail) ==
    <<LBRACE>>
        \o (IF keys = <<>> THEN <<>>
            ELSE <<NL>> \o Join(<<COMMA, NL>>,
                                List([i \in DOMAIN keys |-> EntryText(ind, keys[i])])))
        \o tail

Two  == <<SP, SP>>
Four == <<SP, SP, SP, SP>>

GeneralTexts ==
    { GeneralText(Two,  << <<"name">>, <<"a">> >>, <<NL, RBRACE>>),
      GeneralText(Four, << <<"name">>, <<"a">> >>, <<NL, RBRACE, NL>>),
      GeneralText(Two,  << <<"a">> >>, <<NL, NL, RBRACE, NL>>),
      GeneralText(Two,  << <<"name">>, <<"description">> >>, <<NL, RBRACE, NL>>),
      GeneralText(Two,  <<>>, <<NL, RBRACE>>),
      GeneralText(<<TAB>>, << <<"name">>, <<"b">> >>, <<NL, RBRACE, NL>>),
      \* minified
      <<LBRACE>> \o EncodeString(<<"name">>) \o <<COLON, SP>> \o EncodeString(<<"OpenAI">>)
          \o <<COMMA, SP>> \o EncodeString(<<"a">>) \o <<COLON, SP, LBRACE, RBRACE, RBRACE>>,
      \* CRLF line endings
      WriteText(GeneralText(Two, << <<"name">>, <<"a">> >>, <<NL, RBRACE, NL>>), <<CR, NL>>),
      \* not JSON
      <<LBRACE, NL, SP, SP, QUOTE, "a", QUOTE, COLON, SP, NL, RBRACE, NL>>,
      \* JSON, not an object
      <<LBRACK, NL, RBRACK, NL>> }

NoFile     == [exists |-> FALSE, bytes |-> <<>>]
File(data) == [exists |-> TRUE, bytes |-> data]

PricingGoogle == MkPath("pricing", "google")
PricingOpenai == MkPath("pricing", "openai")
GeneralCustom == MkPath("custom", "target")
Paths == { PricingGoogle, PricingOpenai, GeneralCustom, MkPath("general", "google"),
           MkPath("general", "openai"), MkPath("general", "open-ai") }

\* sys.argv[1:]
CommandLines == { <<>>, <<PricingGoogle>>, <<PricingGoogle, GeneralCustom>>,
                  <<PricingOpenai>>, <<PricingOpenai, GeneralCustom>> }

\* os.linesep: the script runs on a POSIX system.
linesep == <<NL>>

(***************************************************************************)
(* The state                                                               *)
(***************************************************************************)
VARIABLES
    argv,            \* sys.argv[1:]
    fs,              \* the file system: path -> [exists, bytes]
    pc,              \* where main() is: "start", "load", "loop", "exit"
    general_paths,   \* main's local
    pricing_models,  \* main's local
    next_target,     \* the index in general_paths the for loop is at
    out,             \* the lines printed so far in this run
    exit_code,       \* the process exit code once pc = "exit"
    run,             \* the number of this run
    fs0,             \* the file system when this run started
    prev_exit,       \* the exit code of the run before this one, -1 if none
    written          \* the paths write_text was called on in this run

vars == <<argv, fs, pc, general_paths, pricing_models, next_target,
          out, exit_code, run, fs0, prev_exit, written>>

pricing_path     == argv[1]
general_path_arg == IF Len(argv) > 1 THEN argv[2] ELSE NoPath

\* A printed line: the stream, the message without its arguments, and the
\* path and the model id the message names.
Line(fd, msg, path, id) == [fd |-> fd, msg |-> msg, path |-> path, id |-> id]

MsgUsage       == "Usage: sync_pricing_to_general.py <pricing-file> [general-file]"
MsgNoPricing   == "::error file=..::Pricing file not found"
MsgNoGeneral   == "::notice::No general file at .., skipping"
MsgAllPresent  == "All pricing models already present in .."
MsgNoRootBrace == "::warning::Could not find root closing brace in .., skipping"
MsgBadFormat   == "::warning::Unexpected format before root brace in .., skipping"
MsgAdded       == "Added missing models to ..:"
MsgAddedId     == "  - .."
MsgTraceback   == "Traceback (most recent call last):"

Init ==
    /\ argv \in CommandLines
    /\ \E price \in {File(t) : t \in PricingTexts} \cup {NoFile},
          g1 \in {File(t) : t \in GeneralTexts} \cup {NoFile},
          g2 \in {File(t) : t \in GeneralTexts} \cup {NoFile} :
          LET targets == IF argv = <<>> THEN <<>>
                         ELSE get_general_paths(pricing_path, general_path_arg)
          IN  /\ argv = <<>> => price = NoFile
              /\ argv = <<>> => g1 = NoFile
              /\ Len(targets) < 2 => g2 = NoFile
              /\ fs = [p \in Paths |->
                          IF argv # <<>> /\ p = pricing_path THEN price
                          ELSE IF Len(targets) >= 1 /\ p = targets[1] THEN g1
                          ELSE IF Len(targets) >= 2 /\ p = targets[2] THEN g2
                          ELSE NoFile]
    /\ pc = "start"
    /\ general_paths = <<>>
    /\ pricing_models = {}
    /\ next_target = 1
    /\ out = <<>>
    /\ exit_code = -1
    /\ run = 1
    /\ fs0 = fs
    /\ prev_exit = -1
    /\ written = {}

(***************************************************************************)
(* main()                                                                  *)
(***************************************************************************)
\* A variant of continue that leaves the loop, as break would.
Continue_Break(i) == Len(general_paths) + 1

\* continue: the loop goes on with the target after this one.
Continue(i) == i + 1

\* A variant in which the exception is swallowed and the process exits with 0.
Raise_ExitZero ==
    /\ out' = Append(out, Line("stderr", MsgTraceback, NoPath, <<>>))
    /\ exit_code' = 0
    /\ pc' = "exit"

\* An exception nothing catches: the interpreter prints a traceback and the
\* process exits with code 1.
Raise ==
    /\ out' = Append(out, Line("stderr", MsgTraceback, NoPath, <<>>))
    /\ exit_code' = 1
    /\ pc' = "exit"

\* Lines 36-45: the usage check and the pricing file's existence.
CheckArgs ==
    /\ pc = "start"
    /\ IF Len(argv) < 1
       THEN /\ out' = Append(out, Line("stderr", MsgUsage, NoPath, <<>>))
            /\ exit_code' = 1
            /\ pc' = "exit"
       ELSE IF ~fs[pricing_path].exists
       THEN /\ out' = Append(out, Line("stderr", MsgNoPricing, pricing_path, <<>>))
            /\ exit_code' = 1
            /\ pc' = "exit"
       ELSE /\ pc' = "load"
            /\ UNCHANGED <<out, exit_code>>
    /\ UNCHANGED <<argv, fs, general_paths, pricing_models, next_target,
                   run, fs0, prev_exit, written>>

\* Lines 47-49: the targets and the pricing document's keys.
LoadPricing ==
    /\ pc = "load"
    /\ general_paths' = get_general_paths(pricing_path, general_path_arg)
    /\ LET pricing == Loads(ReadText(fs[pricing_path].bytes))
       IN  IF pricing.ok /\ pricing.v.t = "obj"
           THEN /\ pricing_models' = Keys(pricing.v)
                /\ pc' = "loop"
                /\ UNCHANGED <<out, exit_code>>
           ELSE /\ Raise
                /\ UNCHANGED pricing_models
    /\ next_target' = 1
    /\ UNCHANGED <<argv, fs, run, fs0, prev_exit, written>>

\* Lines 51-102: one pass of the for loop over general_paths.
SyncTarget ==
    /\ pc = "loop"
    /\ next_target <= Len(general_paths)
    /\ LET general_path == general_paths[next_target]
           content      == ReadText(fs[general_path].bytes)
           general      == Loads(content)
           missing      == Missing(pricing_models, general.v)
           indent       == DetectIndent(content)
           root_close   == RootClose(content)
           insert_at    == root_close - 1
           Skip(line)   == /\ out' = Append(out, line)
                           /\ next_target' = Continue(next_target)
                           /\ UNCHANGED <<fs, written, pc, exit_code>>
       IN  IF ~fs[general_path].exists
           THEN Skip(Line("stdout", MsgNoGeneral, general_path, <<>>))
           ELSE IF ~(general.ok /\ general.v.t = "obj")
           THEN /\ Raise
                /\ UNCHANGED <<fs, written, next_target>>
           ELSE IF missing = <<>>
           THEN Skip(Line("stdout", MsgAllPresent, general_path, <<>>))
           ELSE IF ~RootBraceFound(content, root_close)
           THEN Skip(Line("stderr", MsgNoRootBrace, general_path, <<>>))
           ELSE IF ~NewlineBeforeBrace(content, insert_at)
           THEN Skip(Line("stderr", MsgBadFormat, general_path, <<>>))
           ELSE /\ fs' = [fs EXCEPT ![general_path] =
                            File(WriteText(Splice(content, insert_at,
                                                  NewEntriesStr(indent, missing)),
                                           linesep))]
                /\ written' = written \cup {general_path}
                /\ out' = out \o <<Line("stdout", MsgAdded, general_path, <<>>)>>
                              \o List([i \in DOMAIN missing |->
                                          Line("stdout", MsgAddedId, general_path, missing[i])])
                /\ next_target' = next_target + 1
                /\ UNCHANGED <<pc, exit_code>>
    /\ UNCHANGED <<argv, general_paths, pricing_models, run, fs0, prev_exit>>

\* Line 104: return 0 after the last target.
Return ==
    /\ pc = "loop"
    /\ next_target > Len(general_paths)
    /\ exit_code' = 0
    /\ pc' = "exit"
    /\ UNCHANGED <<argv, fs, general_paths, pricing_models, next_target,
                   out, run, fs0, prev_exit, written>>

\* The script is run again with the same command line on the files as the
\* run before left them.
Rerun ==
    /\ pc = "exit"
    /\ run < MaxRuns
    /\ run' = run + 1
    /\ pc' = "start"
    /\ general_paths' = <<>>
    /\ pricing_models' = {}
    /\ next_target' = 1
    /\ out' = <<>>
    /\ exit_code' = -1
    /\ fs0' = fs
    /\ prev_exit' = exit_code
    /\ written' = {}
    /\ UNCHANGED <<argv, fs>>

Next == CheckArgs \/ LoadPricing \/ SyncTarget \/ Return \/ Rerun

Spec == Init /\ [][Next]_vars

(***************************************************************************)
(* What the properties below speak of                                      *)
(***************************************************************************)
\* The JSON document a file holds, if it holds one, and its top-level keys.
IsObject(f) ==
    /\ f.exists
    /\ LET doc == Loads(f.bytes) IN doc.ok /\ doc.v.t = "obj"
KeysOf(f)   == IF IsObject(f) THEN Keys(Loads(f.bytes).v) ELSE {}
ValueOf(f, key) == Lookup(Loads(f.bytes).v, key)
NoDuplicateKeys(f) ==
    LET mems == Loads(f.bytes).v.v
    IN  \A i, j \in DOMAIN mems : mems[i].k = mems[j].k => i = j

Finished  == pc = "exit"
Completed == pc = "exit" /\ exit_code = 0
TargetIndexes == DOMAIN general_paths
\* The for loop has been through target i.
Processed(i) == pc \in {"loop", "exit"} /\ i \in TargetIndexes /\ i < next_target

\* The lines this run printed about a path.
Printed(path, msgs) == \E n \in DOMAIN out : out[n].path = path /\ out[n].msg \in msgs
\* The model ids this run reports as added to a path.
Inserted(path) == {out[n].id : n \in {m \in DOMAIN out :
                                        out[m].path = path /\ out[m].msg = MsgAddedId}}

\* The pricing keys a general file lacks, reserved keys aside.
Lacking(f) == (pricing_models \ KeysOf(f)) \ GENERAL_RESERVED

\* The 1-based position of the last character that is not whitespace, or 0.
LastSolid(b) ==
    LET solid == {i \in 1..Len(b) : b[i] \notin {SP, TAB, NL, CR}}
    IN  IF solid = {} THEN 0 ELSE CHOOSE i \in solid : \A j \in solid : j <= i

\* The text ends "}\n\n}": an entry's brace, a newline, a blank line, the root brace.
EndsWithBlankLineShape(b) ==
    LET r == LastSolid(b)
    IN  r >= 4 /\ b[r] = RBRACE /\ b[r - 1] = NL /\ b[r - 2] = NL /\ b[r - 3] = RBRACE

\* The root brace is the first character of its line.
BraceStartsLine(b) ==
    LET r == LastSolid(b)
    IN  r >= 2 /\ b[r] = RBRACE /\ b[r - 1] \in {NL, CR}

\* Every existing target of this run held a JSON object when the run started.
TargetsLoadable ==
    \A i \in TargetIndexes : fs0[general_paths[i]].exists => IsObject(fs0[general_paths[i]])

(***************************************************************************)
(* C1: after a run that went through the target loop, every pricing key    *)
(* that is not reserved is a top-level key of every target general file    *)
(* that exists.                                                            *)
(***************************************************************************)
C1_PricingKeysPresent ==
    Completed =>
        \A i \in TargetIndexes :
            fs0[general_paths[i]].exists =>
                (pricing_models \ GENERAL_RESERVED) \subseteq KeysOf(fs[general_paths[i]])

(***************************************************************************)
(* C2: every model id main() inserts into a general file has, in the       *)
(* rewritten file parsed as JSON, the value MINIMAL_STUB.                  *)
(***************************************************************************)
C2_InsertedValueIsStub ==
    \A path \in written :
        \A id \in Inserted(path) :
            /\ IsObject(fs[path])
            /\ id \in KeysOf(fs[path])
            /\ ValueOf(fs[path], id) = MINIMAL_STUB

(***************************************************************************)
(* C3: a second run after a completed first run writes nothing, leaves     *)
(* every target as the first run left it, and no target holds a key twice. *)
(***************************************************************************)
C3_SecondRunChangesNothing ==
    (Finished /\ run >= 2 /\ prev_exit = 0) =>
        /\ written = {}
        /\ fs = fs0
        /\ \A i \in TargetIndexes :
               IsObject(fs[general_paths[i]]) => NoDuplicateKeys(fs[general_paths[i]])

(***************************************************************************)
(* C4: a run neither adds, removes nor modifies a reserved key of a        *)
(* general file: it is a key after the run iff it was one before, with     *)
(* the same value.                                                         *)
(***************************************************************************)
C4_ReservedKeysUntouched ==
    Finished =>
        \A path \in Paths : \A key \in GENERAL_RESERVED :
            /\ key \in KeysOf(fs[path]) <=> key \in KeysOf(fs0[path])
            /\ key \in KeysOf(fs0[path]) => ValueOf(fs[path], key) = ValueOf(fs0[path], key)

(***************************************************************************)
(* C5: a rewritten general file is the old file with one block inserted    *)
(* at the newline before the root brace: the bytes before that point and   *)
(* the bytes from it on are the old ones.                                  *)
(***************************************************************************)
C5_OnlyOneBlockInserted ==
    \A path \in written :
        LET old == fs0[path].bytes
            new == fs[path].bytes
            p   == LastSolid(old) - 2
        IN  /\ p >= 0
            /\ Len(new) >= Len(old)
            /\ SliceTo(new, p) = SliceTo(old, p)
            /\ SliceFrom(new, Len(new) - (Len(old) - p)) = SliceFrom(old, p)

(***************************************************************************)
(* C6 as stated: a general file that lacks a pricing model and does not    *)
(* end "}\n\n}" gets a warning and is left untouched, and the exit code    *)
(* is 0.                                                                   *)
(***************************************************************************)
C6_SkipUnlessBlankLineShape ==
    \A i \in TargetIndexes :
        LET path == general_paths[i]
        IN  (/\ Processed(i)
             /\ IsObject(fs0[path])
             /\ Lacking(fs0[path]) # {}
             /\ ~EndsWithBlankLineShape(fs0[path].bytes))
            => /\ Printed(path, {MsgNoRootBrace, MsgBadFormat})
               /\ fs[path] = fs0[path]
               /\ path \notin written
               /\ Finished => exit_code = 0

(***************************************************************************)
(* C6 amended: a general file that lacks a pricing model and whose root    *)
(* brace does not start a line gets a warning and is left untouched, and   *)
(* the run ends with exit code 0 if every existing target is a JSON        *)
(* object.                                                                 *)
(***************************************************************************)
C6_SkipUnlessBraceStartsLine ==
    \A i \in TargetIndexes :
        LET path == general_paths[i]
        IN  (/\ Processed(i)
             /\ IsObject(fs0[path])
             /\ Lacking(fs0[path]) # {}
             /\ ~BraceStartsLine(fs0[path].bytes))
            => /\ Printed(path, {MsgNoRootBrace, MsgBadFormat})
               /\ fs[path] = fs0[path]
               /\ path \notin written
               /\ (Finished /\ TargetsLoadable) => exit_code = 0

C6_Witness ==
    /\ Completed
    /\ \E i \in TargetIndexes :
          /\ IsObject(fs0[general_paths[i]])
          /\ Lacking(fs0[general_paths[i]]) # {}
          /\ ~BraceStartsLine(fs0[general_paths[i]].bytes)
          /\ Printed(general_paths[i], {MsgBadFormat})

(***************************************************************************)
(* C7 as stated: a run without an argument, without the pricing file,      *)
(* with a pricing file that is not JSON or with a general file that is not *)
(* JSON ends with a non-zero exit code and an ::error line; without the    *)
(* pricing file nothing is written; every other run ends with 0.           *)
(***************************************************************************)
NoArgument     == argv = <<>>
PricingMissing == argv # <<>> /\ ~fs0[pricing_path].exists
IsJson(f)      == f.exists /\ Loads(f.bytes).ok
ErrorAnnotated == \E n \in DOMAIN out : out[n].msg = MsgNoPricing
NothingWritten == written = {} /\ fs = fs0

FatalAsStated ==
    \/ NoArgument
    \/ PricingMissing
    \/ ~IsJson(fs0[pricing_path])
    \/ \E i \in TargetIndexes :
          fs0[general_paths[i]].exists /\ ~IsJson(fs0[general_paths[i]])

C7_FatalIsAnnotated ==
    Finished =>
        /\ FatalAsStated => (exit_code # 0 /\ ErrorAnnotated)
        /\ PricingMissing => NothingWritten
        /\ ~FatalAsStated => exit_code = 0

(***************************************************************************)
(* C7 amended: a run without an argument, without the pricing file, with a *)
(* pricing file that is not a JSON object or with an existing general file *)
(* that is not a JSON object ends with exit code 1, every other run with   *)
(* 0; the ::error line is printed exactly when the pricing file is not     *)
(* found (no argument prints the usage line, a file that is not a JSON     *)
(* object the traceback of an uncaught exception); without the pricing     *)
(* file nothing is written.                                                *)
(***************************************************************************)
FatalInFact ==
    \/ NoArgument
    \/ PricingMissing
    \/ ~IsObject(fs0[pricing_path])
    \/ \E i \in TargetIndexes :
          fs0[general_paths[i]].exists /\ ~IsObject(fs0[general_paths[i]])

C7_FatalExitsNonZero ==
    Finished =>
        /\ FatalInFact => exit_code = 1
        /\ ~FatalInFact => exit_code = 0
        /\ ErrorAnnotated <=> PricingMissing
        /\ NoArgument => Printed(NoPath, {MsgUsage})
        /\ (FatalInFact /\ ~NoArgument /\ ~PricingMissing) => Printed(NoPath, {MsgTraceback})
        /\ PricingMissing => NothingWritten

C7_Witness ==
    /\ Finished
    /\ exit_code = 1
    /\ ~NoArgument /\ ~PricingMissing
    /\ IsObject(fs0[pricing_path])
    /\ Printed(NoPath, {MsgTraceback})
    /\ ~ErrorAnnotated

(***************************************************************************)
(* C8 as stated: with two targets, when the first is skipped (absent, or   *)
(* lacking a model and not of the shape the splice needs), a notice or a   *)
(* warning is printed for it, the second target is processed as its own    *)
(* content and the pricing keys decide, and the exit code is 0.            *)
(***************************************************************************)
FirstPath  == general_paths[1]
SecondPath == general_paths[2]

\* The run gets as far as the for loop.
LoopEntered == argv # <<>> /\ IsObject(fs0[pricing_path])

FirstIsSkipped ==
    LET f == fs0[FirstPath]
    IN  \/ ~f.exists
        \/ IsObject(f) /\ Lacking(f) # {} /\ ~BraceStartsLine(f.bytes)

\* The line a target that is absent or a JSON object is answered with.
OutcomeFor(f) ==
    IF ~f.exists THEN MsgNoGeneral
    ELSE IF Lacking(f) = {} THEN MsgAllPresent
    ELSE IF ~BraceStartsLine(f.bytes) THEN MsgBadFormat
    ELSE MsgAdded

SecondProcessedOnItsOwn ==
    LET f == fs0[SecondPath]
    IN  (~f.exists \/ IsObject(f)) =>
            /\ Printed(SecondPath, {OutcomeFor(f)})
            /\ OutcomeFor(f) = MsgAdded =>
                   (SecondPath \in written /\ Inserted(SecondPath) = Lacking(f))
            /\ OutcomeFor(f) # MsgAdded => fs[SecondPath] = fs0[SecondPath]

C8_SkipThenExitZero ==
    (Finished /\ LoopEntered /\ Len(general_paths) = 2 /\ FirstIsSkipped) =>
        /\ Printed(FirstPath, {MsgNoGeneral, MsgNoRootBrace, MsgBadFormat})
        /\ fs[FirstPath] = fs0[FirstPath]
        /\ SecondProcessedOnItsOwn
        /\ exit_code = 0

(***************************************************************************)
(* C8 amended: as stated, but the exit code is 0 only if the second target *)
(* is absent or a JSON object; a second target that exists and is not a    *)
(* JSON object still aborts the run with exit code 1.                      *)
(***************************************************************************)
C8_SkipThenSecondDecides ==
    (Finished /\ LoopEntered /\ Len(general_paths) = 2 /\ FirstIsSkipped) =>
        /\ Printed(FirstPath, {MsgNoGeneral, MsgNoRootBrace, MsgBadFormat})
        /\ fs[FirstPath] = fs0[FirstPath]
        /\ SecondProcessedOnItsOwn
        /\ (~fs0[SecondPath].exists \/ IsObject(fs0[SecondPath])) => exit_code = 0
        /\ (fs0[SecondPath].exists /\ ~IsObject(fs0[SecondPath])) =>
               (exit_code = 1 /\ fs[SecondPath] = fs0[SecondPath])

C8_Witness ==
    /\ Completed
    /\ Len(general_paths) = 2
    /\ fs0[FirstPath].exists
    /\ FirstIsSkipped
    /\ Printed(FirstPath, {MsgBadFormat})
    /\ SecondPath \in written

(***************************************************************************)
(* C9: the lines of an inserted stub are indented with the leading         *)
(* whitespace of the first line of the general file that starts, after     *)
(* its whitespace, with a quote and holds a colon, or with two spaces if   *)
(* there is no such line; a file indented by four spaces gets stubs        *)
(* indented by four spaces.                                                *)
(***************************************************************************)
ClaimedIndent(b) ==
    LET lines == SplitLines(b)
        keyed == {i \in DOMAIN lines :
                     /\ LeadingWs(lines[i]) < Len(lines[i])
                     /\ lines[i][LeadingWs(lines[i]) + 1] = QUOTE
                     /\ \E j \in DOMAIN lines[i] : lines[i][j] = COLON}
    IN  IF keyed = {} THEN <<SP, SP>>
        ELSE LET first == CHOOSE i \in keyed : \A j \in keyed : i <= j
             IN  SubSeq(lines[first], 1, LeadingWs(lines[first]))

\* The text of a stub entry for id with every line indented by ind, from
\* the newline that starts its first line.
IndentedStub(ind, id) ==
    <<NL>> \o ind \o <<QUOTE>> \o id \o <<QUOTE, COLON, SP, LBRACE>>
        \o Concat(List([r \in 1..(Len(StubLines) - 1) |-> <<NL>> \o ind \o StubLines[r + 1]]))

Contains(text, block) ==
    \E k \in 0..(Len(text) - Len(block)) : SubSeq(text, k + 1, k + Len(block)) = block

C9_StubUsesDetectedIndent ==
    \A path \in written :
        \A id \in Inserted(path) :
            Contains(fs[path].bytes, IndentedStub(ClaimedIndent(fs0[path].bytes), id))

C9_Witness ==
    \E path \in written :
        /\ ClaimedIndent(fs0[path].bytes) = <<SP, SP, SP, SP>>
        /\ Contains(fs[path].bytes, <<NL, SP, SP, SP, SP, SP, SP, QUOTE, "params", QUOTE>>)
        /\ ~Contains(fs[path].bytes, <<NL, SP, SP, SP, SP, QUOTE, "params", QUOTE>>)

(***************************************************************************)
(* C10: a general file main() has written parses as a JSON object that     *)
(* holds no key twice.                                                     *)
(***************************************************************************)
C10_WrittenFileIsJson ==
    \A path \in written : IsObject(fs[path]) /\ NoDuplicateKeys(fs[path])

=============================================================================
